---------------------------- MODULE Spec2Model ----------------------------
(***************************************************************************)
(* A model of lambda_helpers_metrics (src/src/lib.rs): the `Metrics`       *)
(* buffer, its operations new / add_metric / try_add_dimension /           *)
(* format_metrics / flush_metrics, its Drop implementation, and the lines  *)
(* it prints to the standard output and error channels.                    *)
(*                                                                         *)
(* Rust values are modelled as follows.                                    *)
(*   String          a TLA+ string                                         *)
(*   f64             the string of its shortest decimal form ("1.0"),      *)
(*                   "NaN", "inf" and "-inf" for the non-finite values     *)
(*   MetricUnit      the string of the variant's name                      *)
(*   HashMap<K, V>   a function whose DOMAIN is the set of keys            *)
(*   Vec<T>          a sequence                                            *)
(*   struct          a record with the struct's field names                *)
(***************************************************************************)
EXTENDS Integers, Sequences, FiniteSets, TLC

VARIABLES
    metrics,    \* the `Metrics` value: [namespace, dimensions, entries]
    io,         \* the process's channels and clock: [stdout, stderr, clock]
    state,      \* "Open" while the value is alive, "Closed" once dropped
    call,       \* the last call made on the value, with its arguments
    ret,        \* what that call returned
    added,      \* history: every metric passed to add_metric, in call order
    mark,       \* history: Len(added), Len(io.stdout), Len(io.stderr) when the
                \* buffer was last fresh (constructed, or explicitly flushed)
    steps       \* history: number of steps taken by the owner after `new`

vars == <<metrics, io, state, call, ret, added, mark, steps>>

----------------------------------------------------------------------------
(* Program constants.                                                      *)

MAX_DIMENSIONS == 30

MAX_METRICS == 100

MetricUnit ==
    { "Seconds", "Microseconds", "Milliseconds", "Bytes", "Kilobytes",
      "Megabytes", "Gigabytes", "Terabytes", "Count", "BytesPerSecond",
      "KilobytesPerSecond", "MegabytesPerSecond", "GigabytesPerSecond",
      "TerabytesPerSecond", "BitsPerSecond", "KilobitsPerSecond",
      "MegabitsPerSecond", "GigabitsPerSecond", "TerabitsPerSecond",
      "CountPerSecond" }

----------------------------------------------------------------------------
(* Bounds of the model and the inputs the owner of the buffer draws from.  *)

\* The owner takes at most MaxSteps steps after `new`: a step is one call
\* (drop included) or one run of a fill loop.
MaxSteps == 3

Namespaces == { "test_namespace" }

ConstructKeys == { "service" }

ConstructValues == { "dummy_service" }

DimensionKeyInputs == { "service", "key0", "key31" }

DimensionValueInputs == { "value31" }

\* "service" is also the key of the dimension set at construction.
MetricNameInputs == { "metric0", "over_100", "service" }

UnitInputs == { "Count", "Seconds" }

ValueInputs == { "1.0", "2.0" }

\* Lengths of the callers' fill loops (the tests' `for i in 0..100` and
\* `for i in 0..29`).
MetricLoopCounts == { MAX_METRICS }

DimensionLoopCounts == { MAX_DIMENSIONS - 2, MAX_DIMENSIONS - 1 }

----------------------------------------------------------------------------
(* Values.                                                                 *)

\* format!("metric{i}"), format!("key{i}"), format!("value{i}")
FormatIndexed(prefix, i) == prefix \o ToString(i)

\* `i as f64`
AsF64(i) == ToString(i) \o ".0"

Metric(name, unit, value) == [name |-> name, unit |-> unit, value |-> value]

\* Mutant of to_metric_definition: the high resolution (1 s) is declared.
to_metric_definition_high_resolution(metric) ==
    [name |-> metric.name, unit |-> metric.unit, storage_resolution |-> 1]

to_metric_definition(metric) ==
    [name |-> metric.name, unit |-> metric.unit, storage_resolution |-> 60]

\* HashMap::insert
HashMapInsert(map, key, value) ==
    [k \in DOMAIN map \cup {key} |-> IF k = key THEN value ELSE map[k]]

\* HashMap::new()
EmptyHashMap == [k \in {} |-> ""]

\* Iterator::collect::<HashMap<_, _>>() over (name, value) pairs: a later pair
\* replaces an earlier one with the same key.
CollectValues(entries) ==
    [n \in {entries[i].name : i \in 1..Len(entries)} |->
        LET last == CHOOSE i \in 1..Len(entries) :
                        /\ entries[i].name = n
                        /\ \A j \in (i + 1)..Len(entries) : entries[j].name # n
        IN  entries[last].value]

----------------------------------------------------------------------------
(* The standard channels and the clock.                                    *)

PayloadLine(payload) == [kind |-> "payload", body |-> payload]

TextLine(text) == [kind |-> "text", body |-> text]

println(w, line) == [w EXCEPT !.stdout = Append(@, line)]

eprintln(w, line) == [w EXCEPT !.stderr = Append(@, line)]

\* Utc::now().timestamp_millis(): the clock is read and moves on.
Now(w) == w.clock

Tick(w) == [w EXCEPT !.clock = @ + 1]

----------------------------------------------------------------------------
(* impl Metrics                                                            *)

\* Mutant of try_add_dimension: the limit is tested with > instead of >=.
try_add_dimension_limit_gt(self, key, value) ==
    IF Cardinality(DOMAIN self.dimensions) > MAX_DIMENSIONS
    THEN [self |-> self, ret |-> [ok |-> FALSE, err |-> "Too many dimensions"]]
    ELSE [self |-> [self EXCEPT !.dimensions = HashMapInsert(@, key, value)],
          ret  |-> [ok |-> TRUE, err |-> ""]]

\* Mutant of try_add_dimension: at the limit a key already present is still
\* overwritten.
try_add_dimension_overwrite_at_limit(self, key, value) ==
    IF /\ Cardinality(DOMAIN self.dimensions) >= MAX_DIMENSIONS
       /\ key \notin DOMAIN self.dimensions
    THEN [self |-> self, ret |-> [ok |-> FALSE, err |-> "Too many dimensions"]]
    ELSE [self |-> [self EXCEPT !.dimensions = HashMapInsert(@, key, value)],
          ret  |-> [ok |-> TRUE, err |-> ""]]

\* Mutant of try_add_dimension: the limit is reached one dimension early.
try_add_dimension_limit_early(self, key, value) ==
    IF Cardinality(DOMAIN self.dimensions) >= MAX_DIMENSIONS - 1
    THEN [self |-> self, ret |-> [ok |-> FALSE, err |-> "Too many dimensions"]]
    ELSE [self |-> [self EXCEPT !.dimensions = HashMapInsert(@, key, value)],
          ret  |-> [ok |-> TRUE, err |-> ""]]

try_add_dimension(self, key, value) ==
    IF Cardinality(DOMAIN self.dimensions) >= MAX_DIMENSIONS
    THEN [self |-> self, ret |-> [ok |-> FALSE, err |-> "Too many dimensions"]]
    ELSE [self |-> [self EXCEPT !.dimensions = HashMapInsert(@, key, value)],
          ret  |-> [ok |-> TRUE, err |-> ""]]

\* Mutant of new: the dimension given at construction is not inserted.
new_without_dimension(namespace, dimension_key, dimension_value) ==
    [self |-> [namespace  |-> namespace,
               dimensions |-> EmptyHashMap,
               entries    |-> <<>>],
     panicked |-> FALSE]

\* `.unwrap()` panics on Err: `panicked` tells whether it did.
new(namespace, dimension_key, dimension_value) ==
    LET fresh == [namespace  |-> namespace,
                  dimensions |-> EmptyHashMap,
                  entries    |-> <<>>]
        r == try_add_dimension(fresh, dimension_key, dimension_value)
    IN  [self |-> r.self, panicked |-> ~r.ret.ok]

format_metrics(self, timestamp) ==
    LET metrics_definitions ==
            [i \in 1..Len(self.entries) |-> to_metric_definition(self.entries[i])]
        metrics_entries ==
            << [namespace  |-> self.namespace,
                \* one inner Vec of the map's keys, in the map's (unspecified)
                \* iteration order: modelled by the set of its elements
                dimensions |-> << DOMAIN self.dimensions >>,
                metrics    |-> metrics_definitions] >>
        cloudwatch_metrics ==
            [timestamp |-> timestamp, cloud_watch_metrics |-> metrics_entries]
    IN  [aws            |-> cloudwatch_metrics,
         dimensions     |-> self.dimensions,
         metrics_values |-> CollectValues(self.entries)]

----------------------------------------------------------------------------
(* Serialization: serde's derived Serialize for CloudWatchMetricsLog and   *)
(* serde_json::to_string.  The JSON text is modelled by the document it    *)
(* denotes: the "_aws" member with its PascalCase fields, and the          *)
(* flattened members as the set of (key, JSON token) pairs written at the  *)
(* top level.                                                              *)

\* A JSON string token.
JsonString(s) == "\"" \o s \o "\""

\* serde_json writes a non-finite f64 as null.
JsonF64(v) == IF v \in {"NaN", "inf", "-inf"} THEN "null" ELSE v

SerializeMetricDefinition(d) ==
    [Name |-> d.name, Unit |-> d.unit, StorageResolution |-> d.storage_resolution]

SerializeMetricDirective(d) ==
    [Namespace  |-> d.namespace,
     Dimensions |-> d.dimensions,
     Metrics    |-> [i \in 1..Len(d.metrics) |->
                        SerializeMetricDefinition(d.metrics[i])]]

SerializeMetadataObject(m) ==
    [Timestamp         |-> m.timestamp,
     CloudWatchMetrics |-> [i \in 1..Len(m.cloud_watch_metrics) |->
                              SerializeMetricDirective(m.cloud_watch_metrics[i])]]

to_string(log) ==
    [aws     |-> SerializeMetadataObject(log.aws),
     members |-> {<<k, JsonString(log.dimensions[k])>> : k \in DOMAIN log.dimensions}
                 \cup
                 {<<n, JsonF64(log.metrics_values[n])>> : n \in DOMAIN log.metrics_values}]

\* impl TryInto<String> for CloudWatchMetricsLog.  `fault` is a failure of the
\* serializer injected by the environment.
try_into(log, fault) ==
    IF fault
    THEN [ok |-> FALSE, value |-> "serialization error"]
    ELSE [ok |-> TRUE, value |-> to_string(log)]

\* Mutant of flush_metrics: the entries are not cleared.
flush_metrics_keep_entries(self, w, fault) ==
    LET serialized_metrics == try_into(format_metrics(self, Now(w)), fault)
        w1 == Tick(w)
        w2 == IF serialized_metrics.ok
              THEN println(w1, PayloadLine(serialized_metrics.value))
              ELSE eprintln(w1, "Error when serializing metrics: "
                                    \o serialized_metrics.value)
    IN  [self |-> self, w |-> w2]

\* Mutant of flush_metrics: an empty buffer is not flushed.
flush_metrics_skip_empty(self, w, fault) ==
    IF self.entries = <<>>
    THEN [self |-> self, w |-> w]
    ELSE LET serialized_metrics == try_into(format_metrics(self, Now(w)), fault)
             w1 == Tick(w)
             w2 == IF serialized_metrics.ok
                   THEN println(w1, PayloadLine(serialized_metrics.value))
                   ELSE eprintln(w1, "Error when serializing metrics: "
                                         \o serialized_metrics.value)
         IN  [self |-> [self EXCEPT !.entries = <<>>], w |-> w2]

\* Mutant of flush_metrics: on a serialization error the function returns
\* before the entries are cleared.
flush_metrics_return_on_error(self, w, fault) ==
    LET serialized_metrics == try_into(format_metrics(self, Now(w)), fault)
        w1 == Tick(w)
    IN  IF serialized_metrics.ok
        THEN [self |-> [self EXCEPT !.entries = <<>>],
              w    |-> println(w1, PayloadLine(serialized_metrics.value))]
        ELSE [self |-> self,
              w    |-> eprintln(w1, "Error when serializing metrics: "
                                        \o serialized_metrics.value)]

\* Mutant of flush_metrics: the dimensions are cleared with the entries.
flush_metrics_reset_dimensions(self, w, fault) ==
    LET serialized_metrics == try_into(format_metrics(self, Now(w)), fault)
        w1 == Tick(w)
        w2 == IF serialized_metrics.ok
              THEN println(w1, PayloadLine(serialized_metrics.value))
              ELSE eprintln(w1, "Error when serializing metrics: "
                                    \o serialized_metrics.value)
    IN  [self |-> [self EXCEPT !.entries = <<>>, !.dimensions = EmptyHashMap],
         w    |-> w2]

flush_metrics(self, w, fault) ==
    LET serialized_metrics == try_into(format_metrics(self, Now(w)), fault)
        w1 == Tick(w)
        w2 == IF serialized_metrics.ok
              THEN println(w1, PayloadLine(serialized_metrics.value))
              ELSE eprintln(w1, "Error when serializing metrics: "
                                    \o serialized_metrics.value)
    IN  [self |-> [self EXCEPT !.entries = <<>>], w |-> w2]

\* Mutant of add_metric: the buffer is flushed one entry early.
add_metric_early_flush(self, w, name, unit, value, fault) ==
    LET flushed ==
            IF \/ Len(self.entries) >= MAX_METRICS - 1
               \/ \E i \in 1..Len(self.entries) : self.entries[i].name = name
            THEN flush_metrics(self, w, fault)
            ELSE [self |-> self, w |-> w]
    IN  [self |-> [flushed.self EXCEPT
                      !.entries = Append(@, Metric(name, unit, value))],
         w    |-> flushed.w]

\* Mutant of add_metric: the limit is tested with > instead of >=.
add_metric_limit_gt(self, w, name, unit, value, fault) ==
    LET flushed ==
            IF \/ Len(self.entries) > MAX_METRICS
               \/ \E i \in 1..Len(self.entries) : self.entries[i].name = name
            THEN flush_metrics(self, w, fault)
            ELSE [self |-> self, w |-> w]
    IN  [self |-> [flushed.self EXCEPT
                      !.entries = Append(@, Metric(name, unit, value))],
         w    |-> flushed.w]

\* Mutant of add_metric: the new metric is pushed before the flush.
add_metric_push_first(self, w, name, unit, value, fault) ==
    LET pushed == [self EXCEPT !.entries = Append(@, Metric(name, unit, value))]
    IN  IF \/ Len(self.entries) >= MAX_METRICS
           \/ \E i \in 1..Len(self.entries) : self.entries[i].name = name
        THEN [self |-> [flush_metrics(pushed, w, fault).self EXCEPT
                           !.entries = <<Metric(name, unit, value)>>],
              w    |-> flush_metrics(pushed, w, fault).w]
        ELSE [self |-> pushed, w |-> w]

\* Mutant of add_metric: only the last entry's name is compared.
add_metric_last_name_only(self, w, name, unit, value, fault) ==
    LET flushed ==
            IF \/ Len(self.entries) >= MAX_METRICS
               \/ /\ Len(self.entries) > 0
                  /\ self.entries[Len(self.entries)].name = name
            THEN flush_metrics(self, w, fault)
            ELSE [self |-> self, w |-> w]
    IN  [self |-> [flushed.self EXCEPT
                      !.entries = Append(@, Metric(name, unit, value))],
         w    |-> flushed.w]

\* Mutant of add_metric: a metric of a name already present replaces the old
\* entry instead of flushing.
add_metric_overwrite(self, w, name, unit, value, fault) ==
    IF \E i \in 1..Len(self.entries) : self.entries[i].name = name
    THEN [self |-> [self EXCEPT !.entries =
                       [i \in 1..Len(self.entries) |->
                           IF self.entries[i].name = name
                           THEN Metric(name, unit, value)
                           ELSE self.entries[i]]],
          w    |-> w]
    ELSE LET flushed == IF Len(self.entries) >= MAX_METRICS
                        THEN flush_metrics(self, w, fault)
                        ELSE [self |-> self, w |-> w]
         IN  [self |-> [flushed.self EXCEPT
                           !.entries = Append(@, Metric(name, unit, value))],
              w    |-> flushed.w]

add_metric(self, w, name, unit, value, fault) ==
    LET flushed ==
            IF \/ Len(self.entries) >= MAX_METRICS
               \/ \E i \in 1..Len(self.entries) : self.entries[i].name = name
            THEN flush_metrics(self, w, fault)
            ELSE [self |-> self, w |-> w]
    IN  [self |-> [flushed.self EXCEPT
                      !.entries = Append(@, Metric(name, unit, value))],
         w    |-> flushed.w]

\* Mutant of drop: the message is printed and nothing is flushed.
drop_without_flush(self, w, fault) ==
    [self |-> self,
     w    |-> println(w, TextLine("Dropping metrics, publishing metrics"))]

\* Mutant of drop: the buffer is flushed twice.
drop_flush_twice(self, w, fault) ==
    LET once == flush_metrics(self,
                    println(w, TextLine("Dropping metrics, publishing metrics")),
                    fault)
    IN  flush_metrics(once.self, once.w, fault)

\* impl Drop for Metrics
drop(self, w, fault) ==
    flush_metrics(self, println(w, TextLine("Dropping metrics, publishing metrics")),
                  fault)

----------------------------------------------------------------------------
(* The callers' fill loops (tests, lib.rs 322-324 and 334-338).            *)

\* `for i in lo..hi { add_metric(format!("metric{i}"), Count, i as f64) }`.
\* The calls are made in order.  The range is split in two, and the first
\* half's result is bound as a value before the second half runs, so that
\* the evaluation nests only to the depth of log2(hi - lo).
RECURSIVE add_metrics_loop(_, _, _, _, _)
add_metrics_loop(self, w, lo, hi, fault) ==
    IF lo >= hi
    THEN [self |-> self, w |-> w]
    ELSE IF hi = lo + 1
    THEN add_metric(self, w, FormatIndexed("metric", lo), "Count", AsF64(lo), fault)
    ELSE LET mid   == (lo + hi) \div 2
             first == add_metrics_loop(self, w, lo, mid, fault)
         IN  CHOOSE r \in {add_metrics_loop(f.self, f.w, mid, hi, fault) :
                                f \in {first}} : TRUE

\* The metrics such a loop passes to add_metric, in call order.
LoopMetrics(n) ==
    [i \in 1..n |-> Metric(FormatIndexed("metric", i - 1), "Count", AsF64(i - 1))]

\* Each result is unwrapped: `panicked` tells whether some call returned Err.
RECURSIVE add_dimensions_loop(_, _, _)
add_dimensions_loop(self, i, n) ==
    IF i >= n
    THEN [self |-> self, panicked |-> FALSE]
    ELSE LET r == try_add_dimension(self, FormatIndexed("key", i),
                                    FormatIndexed("value", i))
         IN  IF r.ret.ok
             THEN add_dimensions_loop(r.self, i + 1, n)
             ELSE [self |-> r.self, panicked |-> TRUE]

----------------------------------------------------------------------------
(* The state machine: one buffer, from `new` to its drop.                  *)

\* serde_json::to_string cannot fail on a CloudWatchMetricsLog (its map keys
\* are strings, its values strings and f64s), so the program's runs have no
\* serializer fault.
NoFault == { FALSE }

Init ==
    \E namespace \in Namespaces, key \in ConstructKeys, value \in ConstructValues :
        LET n == new(namespace, key, value)
        IN  /\ metrics = n.self
            /\ state = IF n.panicked THEN "Panicked" ELSE "Open"
            /\ io = [stdout |-> <<>>, stderr |-> <<>>, clock |-> 0]
            /\ call = [op |-> "new", namespace |-> namespace,
                       key |-> key, value |-> value]
            /\ ret = "Self"
            /\ added = <<>>
            /\ mark = [added |-> 0, stdout |-> 0, stderr |-> 0]
            /\ steps = 0

Alive == state = "Open" /\ steps < MaxSteps

AddMetric(faults) ==
    /\ Alive
    /\ \E name \in MetricNameInputs, unit \in UnitInputs, value \in ValueInputs,
          fault \in faults :
        LET r == add_metric(metrics, io, name, unit, value, fault)
        IN  /\ metrics' = r.self
            /\ io' = r.w
            /\ call' = [op |-> "add_metric", name |-> name, unit |-> unit,
                        value |-> value]
            /\ ret' = "()"
            /\ added' = Append(added, Metric(name, unit, value))
    /\ steps' = steps + 1
    /\ UNCHANGED <<state, mark>>

AddMetricsLoop(faults) ==
    /\ Alive
    /\ \E n \in MetricLoopCounts, fault \in faults :
        LET r == add_metrics_loop(metrics, io, 0, n, fault)
        IN  /\ metrics' = r.self
            /\ io' = r.w
            /\ call' = [op |-> "add_metrics_loop", n |-> n]
            /\ ret' = "()"
            /\ added' = added \o LoopMetrics(n)
    /\ steps' = steps + 1
    /\ UNCHANGED <<state, mark>>

TryAddDimension ==
    /\ Alive
    /\ \E key \in DimensionKeyInputs, value \in DimensionValueInputs :
        LET r == try_add_dimension(metrics, key, value)
        IN  /\ metrics' = r.self
            /\ call' = [op |-> "try_add_dimension", key |-> key, value |-> value]
            /\ ret' = r.ret
    /\ steps' = steps + 1
    /\ UNCHANGED <<io, state, added, mark>>

AddDimensionsLoop ==
    /\ Alive
    /\ \E n \in DimensionLoopCounts :
        LET r == add_dimensions_loop(metrics, 0, n)
        IN  /\ ~r.panicked
            /\ metrics' = r.self
            /\ call' = [op |-> "add_dimensions_loop", n |-> n]
            /\ ret' = "()"
    /\ steps' = steps + 1
    /\ UNCHANGED <<io, state, added, mark>>

FlushMetrics(faults) ==
    /\ Alive
    /\ \E fault \in faults :
        LET r == flush_metrics(metrics, io, fault)
        IN  /\ metrics' = r.self
            /\ io' = r.w
            /\ mark' = [added |-> Len(added), stdout |-> Len(r.w.stdout),
                        stderr |-> Len(r.w.stderr)]
    /\ call' = [op |-> "flush_metrics"]
    /\ ret' = "()"
    /\ steps' = steps + 1
    /\ UNCHANGED <<state, added>>

\* End of the owner's scope: the value is dropped, and cannot be used again.
Drop(faults) ==
    /\ Alive
    /\ \E fault \in faults :
        LET r == drop(metrics, io, fault)
        IN  /\ metrics' = r.self
            /\ io' = r.w
    /\ state' = "Closed"
    /\ call' = [op |-> "drop"]
    /\ ret' = "()"
    /\ steps' = steps + 1
    /\ UNCHANGED <<added, mark>>

Next ==
    \/ AddMetric(NoFault)
    \/ AddMetricsLoop(NoFault)
    \/ TryAddDimension
    \/ AddDimensionsLoop
    \/ FlushMetrics(NoFault)
    \/ Drop(NoFault)

Spec == Init /\ [][Next]_vars

\* The same program with a serializer that may fail: every flush made by a
\* call of the owner (flush_metrics, add_metric, drop) either serializes or is
\* handed an error, as the environment chooses.  The fill loop of metrics
\* runs without a fault and serves to fill the buffer.
AnyFault == BOOLEAN

NextFault ==
    \/ AddMetric(AnyFault)
    \/ AddMetricsLoop(NoFault)
    \/ TryAddDimension
    \/ FlushMetrics(AnyFault)
    \/ Drop(AnyFault)

SpecFault == Init /\ [][NextFault]_vars

\* The program over a wider choice of `new`'s three &str arguments: the empty
\* string, a key equal to the namespace, a value equal to a key.  After the
\* construction the owner adds dimensions, flushes and drops.
NewNamespaces == {"test_namespace", "test", "custom_lambdas", ""}
NewKeys == {"service", "test", "key0", ""}
NewValues == {"dummy_service", "service", ""}

InitNew ==
    \E namespace \in NewNamespaces, key \in NewKeys, value \in NewValues :
        LET n == new(namespace, key, value)
        IN  /\ metrics = n.self
            /\ state = IF n.panicked THEN "Panicked" ELSE "Open"
            /\ io = [stdout |-> <<>>, stderr |-> <<>>, clock |-> 0]
            /\ call = [op |-> "new", namespace |-> namespace,
                       key |-> key, value |-> value]
            /\ ret = "Self"
            /\ added = <<>>
            /\ mark = [added |-> 0, stdout |-> 0, stderr |-> 0]
            /\ steps = 0

NextNew ==
    \/ TryAddDimension
    \/ FlushMetrics(NoFault)
    \/ Drop(NoFault)

SpecNew == InitNew /\ [][NextNew]_vars

----------------------------------------------------------------------------
(* Vocabulary of the properties.                                           *)

\* The names of the metrics of a sequence.
NamesOf(s) == {s[i].name : i \in 1..Len(s)}

\* The names of the metrics of a sequence are pairwise distinct.
DistinctNames(s) == \A i, j \in 1..Len(s) : s[i].name = s[j].name => i = j

\* The "Metrics" list of an emitted payload line.
PayloadMetrics(line) == line.body.aws.CloudWatchMetrics[1].Metrics

\* The payload line lists metric m (its name with its unit) and writes its
\* value under its name at the top level.
HasMetric(line, m) ==
    /\ line.kind = "payload"
    /\ \E k \in 1..Len(PayloadMetrics(line)) :
          /\ PayloadMetrics(line)[k].Name = m.name
          /\ PayloadMetrics(line)[k].Unit = m.unit
    /\ <<m.name, m.value>> \in line.body.members

\* The payload line carries exactly the metrics of es: one definition per
\* entry, in order, and every entry's value.
Carries(line, es) ==
    /\ line.kind = "payload"
    /\ Len(PayloadMetrics(line)) = Len(es)
    /\ \A i \in 1..Len(es) :
          /\ PayloadMetrics(line)[i].Name = es[i].name
          /\ PayloadMetrics(line)[i].Unit = es[i].unit
          /\ <<es[i].name, es[i].value>> \in line.body.members

\* The step wrote exactly one line to the standard output, a payload that
\* carries the entries live before the step, and nothing to the error channel.
EmitsOnePayloadOfLiveEntries ==
    /\ Len(io'.stdout) = Len(io.stdout) + 1
    /\ SubSeq(io'.stdout, 1, Len(io.stdout)) = io.stdout
    /\ Carries(io'.stdout[Len(io'.stdout)], metrics.entries)
    /\ io'.stderr = io.stderr

\* The last line written to the standard output.
LastLine == io.stdout[Len(io.stdout)]

\* The metric of the last add_metric call.
CalledMetric == Metric(call.name, call.unit, call.value)

----------------------------------------------------------------------------
(* Properties.                                                             *)

\* C1: in every reachable state the buffer holds at most MAX_METRICS (100)
\* live entries, and add_metric never rejects: after an add_metric call (and
\* after a fill loop) the metric just passed is the last live entry.
C1_EntriesBoundedNeverRejected ==
    /\ Len(metrics.entries) <= MAX_METRICS
    /\ call.op = "add_metric" =>
          /\ Len(metrics.entries) >= 1
          /\ metrics.entries[Len(metrics.entries)] = CalledMetric
    /\ call.op = "add_metrics_loop" =>
          /\ Len(metrics.entries) >= 1
          /\ metrics.entries[Len(metrics.entries)].name
                = FormatIndexed("metric", call.n - 1)

\* C1 witness: add_metric was called on a full buffer (the 100 entries went out
\* in a payload) and the new metric is live.
C1_Witness ==
    /\ call.op = "add_metric"
    /\ Len(io.stdout) >= 1
    /\ LastLine.kind = "payload"
    /\ Len(PayloadMetrics(LastLine)) = MAX_METRICS
    /\ CalledMetric \in {metrics.entries[i] : i \in 1..Len(metrics.entries)}

\* C2: once the buffer is Closed (dropped), every metric ever passed to
\* add_metric has been written to the standard output inside some payload.
C2_NoMetricLostAtClose ==
    state = "Closed" =>
        \A i \in 1..Len(added) :
            \E j \in 1..Len(io.stdout) : HasMetric(io.stdout[j], added[i])

\* C2 witness: a closed buffer whose metrics left through an implicit flush
\* (more than MAX_METRICS were added) and through the flush on drop.
C2_Witness ==
    /\ state = "Closed"
    /\ Len(added) > MAX_METRICS
    /\ Len(PayloadMetrics(LastLine)) >= 1

\* C3: add_metric on a buffer that already holds MAX_METRICS entries (whether
\* or not the name is also present) emits exactly one payload, carrying all
\* the prior entries, and leaves exactly the new metric live.
C3_FullBufferFlushesOnce ==
    [][ (call'.op = "add_metric" /\ Len(metrics.entries) >= MAX_METRICS) =>
            /\ EmitsOnePayloadOfLiveEntries
            /\ metrics'.entries
                  = <<Metric(call'.name, call'.unit, call'.value)>> ]_vars

\* C3 witness: a 101st, uniquely named metric was added: the payload before it
\* lists 100 metrics, none of that name, and it is the only live entry.
C3_Witness ==
    /\ call.op = "add_metric"
    /\ Len(io.stdout) >= 1
    /\ LastLine.kind = "payload"
    /\ Len(PayloadMetrics(LastLine)) = MAX_METRICS
    /\ \A k \in 1..MAX_METRICS : PayloadMetrics(LastLine)[k].Name # call.name
    /\ metrics.entries = <<CalledMetric>>

\* C4: add_metric with the name of any live entry (any position, any number
\* k >= 1 of live entries) emits exactly one payload, carrying all k prior
\* entries with their old values, and leaves exactly the new metric live.
C4_DuplicateNameFlushesOnce ==
    [][ ( /\ call'.op = "add_metric"
          /\ \E i \in 1..Len(metrics.entries) :
                metrics.entries[i].name = call'.name ) =>
            /\ EmitsOnePayloadOfLiveEntries
            /\ metrics'.entries
                  = <<Metric(call'.name, call'.unit, call'.value)>> ]_vars

\* C4 witness: a name was added again, with another value, while it was the
\* first of two live entries: both went out, the old value with them.
C4_Witness ==
    /\ call.op = "add_metric"
    /\ Len(io.stdout) >= 1
    /\ LastLine.kind = "payload"
    /\ Len(PayloadMetrics(LastLine)) = 2
    /\ PayloadMetrics(LastLine)[1].Name = call.name
    /\ <<call.name, call.value>> \notin LastLine.body.members
    /\ metrics.entries = <<CalledMetric>>

\* C5: in every reachable state the names of the live entries are pairwise
\* distinct.
C5_LiveNamesDistinct == DistinctNames(metrics.entries)

\* C5 witness: a name has been passed to add_metric twice and at least two
\* entries are live.
C5_Witness ==
    /\ ~DistinctNames(added)
    /\ Len(metrics.entries) >= 2

\* The metrics passed to add_metric since the buffer was last fresh
\* (constructed, or explicitly flushed), in call order.
AddedSinceFresh == SubSeq(added, mark.added + 1, Len(added))

\* The number of dimensions.
DimensionCount == Cardinality(DOMAIN metrics.dimensions)

\* C6: while the metrics added to a fresh (constructed or just flushed) buffer
\* are at most MAX_METRICS and pairwise distinct in name, nothing has been
\* emitted since and the live sequence is exactly those metrics in call order.
C6_DistinctAddsAccumulate ==
    ( /\ state = "Open"
      /\ Len(AddedSinceFresh) <= MAX_METRICS
      /\ DistinctNames(AddedSinceFresh) ) =>
        /\ metrics.entries = AddedSinceFresh
        /\ Len(io.stdout) = mark.stdout
        /\ Len(io.stderr) = mark.stderr

\* C6 witness: MAX_METRICS distinct metrics were added to a buffer that had
\* been flushed, and all of them are live.
C6_Witness ==
    /\ state = "Open"
    /\ mark.stdout >= 1
    /\ Len(AddedSinceFresh) = MAX_METRICS
    /\ DistinctNames(AddedSinceFresh)
    /\ Len(metrics.entries) = MAX_METRICS

\* C7: the number of dimensions never exceeds MAX_DIMENSIONS (30), and no
\* try_add_dimension call, successful or failed, writes to a channel or
\* changes the live entries.
C7_DimensionsBoundedByRejection ==
    /\ [](DimensionCount <= MAX_DIMENSIONS)
    /\ [][ call'.op = "try_add_dimension" =>
              /\ io' = io
              /\ metrics'.entries = metrics.entries ]_vars

\* C7 witness: a try_add_dimension call was rejected at 30 dimensions while
\* metrics were live.
C7_Witness ==
    /\ call.op = "try_add_dimension"
    /\ ~ret.ok
    /\ DimensionCount = MAX_DIMENSIONS
    /\ Len(metrics.entries) >= 1

\* C8: with MAX_DIMENSIONS dimensions held, try_add_dimension returns an error
\* for every key, present or not, and leaves the mapping as it was.
C8_RejectedAtLimit ==
    [][ ( /\ call'.op = "try_add_dimension"
          /\ DimensionCount = MAX_DIMENSIONS ) =>
            /\ ~ret'.ok
            /\ metrics'.dimensions = metrics.dimensions ]_vars

\* C8 witness: at 30 dimensions a key already present was passed with another
\* value and the call was rejected.
C8_Witness ==
    /\ call.op = "try_add_dimension"
    /\ ~ret.ok
    /\ DimensionCount = MAX_DIMENSIONS
    /\ call.key \in DOMAIN metrics.dimensions
    /\ metrics.dimensions[call.key] # call.value

\* C9: below MAX_DIMENSIONS dimensions, try_add_dimension(key, value) succeeds;
\* afterwards key maps to value and every other key is unchanged, a new key
\* raising the count by one and a present key leaving it unchanged.  So a key
\* not yet present is accepted exactly when fewer than MAX_DIMENSIONS are
\* held: the 1st to the 30th distinct key are accepted, the 31st is rejected.
C9_AcceptedBelowLimit ==
    [][ call'.op = "try_add_dimension" =>
          /\ DimensionCount < MAX_DIMENSIONS =>
                /\ ret'.ok
                /\ DOMAIN metrics'.dimensions
                      = DOMAIN metrics.dimensions \cup {call'.key}
                /\ metrics'.dimensions[call'.key] = call'.value
                /\ \A k \in DOMAIN metrics.dimensions \ {call'.key} :
                      metrics'.dimensions[k] = metrics.dimensions[k]
                /\ Cardinality(DOMAIN metrics'.dimensions)
                      = IF call'.key \in DOMAIN metrics.dimensions
                        THEN DimensionCount
                        ELSE DimensionCount + 1
          /\ call'.key \notin DOMAIN metrics.dimensions =>
                (ret'.ok <=> DimensionCount + 1 <= MAX_DIMENSIONS) ]_vars

\* C9 witness: the 30th distinct key was accepted.
C9_Witness ==
    /\ call.op = "try_add_dimension"
    /\ ret.ok
    /\ DimensionCount = MAX_DIMENSIONS
    /\ metrics.dimensions[call.key] = call.value

\* C10: every flush (flush_metrics, the flush inside add_metric, the flush on
\* drop) leaves the live sequence empty and the namespace and dimensions as
\* they were; the namespace never changes, and the dimensions change only by
\* a successful try_add_dimension (a call, or one made by the fill loop).
C10_FlushFrame ==
    [][ /\ metrics'.namespace = metrics.namespace
        /\ call'.op \in {"flush_metrics", "drop"} =>
              /\ metrics'.entries = <<>>
              /\ metrics'.dimensions = metrics.dimensions
        /\ ( \/ Len(io'.stdout) # Len(io.stdout)
             \/ Len(io'.stderr) # Len(io.stderr) ) =>
              /\ metrics'.dimensions = metrics.dimensions
              /\ call'.op = "add_metric" =>
                    metrics'.entries
                       = <<Metric(call'.name, call'.unit, call'.value)>>
        /\ metrics'.dimensions # metrics.dimensions =>
              IF call'.op = "try_add_dimension"
              THEN ret'.ok
              ELSE call'.op = "add_dimensions_loop" ]_vars

\* C10 witness: flush_metrics was called with metrics live and more than one
\* dimension set: the payload went out and the live sequence is empty.
C10_Witness ==
    /\ call.op = "flush_metrics"
    /\ Len(PayloadMetrics(LastLine)) >= 1
    /\ metrics.entries = <<>>
    /\ DimensionCount >= 2

\* The payload line describes the buffer value m: one directive with m's
\* namespace, one array holding exactly m's dimension keys, and one
\* definition per entry of m, in order, with its name, its unit and the
\* storage resolution 60.
Describes(line, m) ==
    /\ line.kind = "payload"
    /\ Len(line.body.aws.CloudWatchMetrics) = 1
    /\ LET d == line.body.aws.CloudWatchMetrics[1]
       IN  /\ d.Namespace = m.namespace
           /\ Len(d.Dimensions) = 1
           /\ d.Dimensions[1] = DOMAIN m.dimensions
           /\ Len(d.Metrics) = Len(m.entries)
           /\ \A i \in 1..Len(m.entries) :
                 d.Metrics[i] = [Name              |-> m.entries[i].name,
                                 Unit              |-> m.entries[i].unit,
                                 StorageResolution |-> 60]

\* The step is one call that flushed the buffer as it was before the call.
FlushedPreState ==
    \/ call'.op \in {"flush_metrics", "drop"}
    \/ call'.op = "add_metric" /\ Len(io'.stdout) > Len(io.stdout)

\* C11: the payload a flush emits describes the buffer at the moment of the
\* flush: its namespace, a single array of all its dimension keys, and one
\* definition per live entry in insertion order with the entry's name and
\* unit and StorageResolution 60.
C11_PayloadDescribesBuffer ==
    [][ FlushedPreState =>
            /\ Len(io'.stdout) > Len(io.stdout)
            /\ Describes(io'.stdout[Len(io'.stdout)], metrics) ]_vars

\* C11 witness: flush_metrics emitted a payload that lists the dimension key
\* and two metrics of different units.
C11_Witness ==
    /\ call.op = "flush_metrics"
    /\ LastLine.kind = "payload"
    /\ LastLine.body.aws.CloudWatchMetrics[1].Dimensions[1] = {"service"}
    /\ Len(PayloadMetrics(LastLine)) = 2
    /\ PayloadMetrics(LastLine)[1].Unit # PayloadMetrics(LastLine)[2].Unit

\* The tokens written under `key` at the top level of a payload line.
TopLevelTokens(line, key) ==
    {m[2] : m \in {x \in line.body.members : x[1] = key}}

\* The top level of the payload line maps `key` to `token`: the key is written
\* there, with that token and no other.
MapsTo(line, key, token) == TopLevelTokens(line, key) = {token}

\* C12: in every emitted payload the top level maps every dimension key of
\* the flushed buffer to its value and every live metric's name to its value,
\* whatever keys and names were passed.  (Violated: a metric named like a
\* dimension key is written as a second member of that key.)
C12_TopLevelHoldsDimensionsAndValues ==
    [][ FlushedPreState =>
            LET line == io'.stdout[Len(io'.stdout)]
            IN  /\ \A k \in DOMAIN metrics.dimensions :
                      MapsTo(line, k, JsonString(metrics.dimensions[k]))
                /\ \A i \in 1..Len(metrics.entries) :
                      MapsTo(line, metrics.entries[i].name,
                             metrics.entries[i].value) ]_vars

\* The number of payload lines among the lines of a channel.
PayloadCount(out) == Cardinality({i \in 1..Len(out) : out[i].kind = "payload"})

\* C13: a flush (flush_metrics, or the one on drop) of a buffer with no live
\* entry writes nothing to the error channel and emits one payload, with the
\* namespace, all the dimensions, an empty Metrics array and no metric value;
\* the buffer after it equals the buffer before it.  So flush_metrics followed
\* by drop yields a second payload, with no entries.
C13_EmptyFlush ==
    [][ ( /\ call'.op \in {"flush_metrics", "drop"}
          /\ metrics.entries = <<>> ) =>
            LET line == io'.stdout[Len(io'.stdout)]
            IN  /\ io'.stderr = io.stderr
                /\ PayloadCount(io'.stdout) = PayloadCount(io.stdout) + 1
                /\ Describes(line, metrics)
                /\ PayloadMetrics(line) = <<>>
                /\ line.body.members
                      = {<<k, JsonString(metrics.dimensions[k])>> :
                            k \in DOMAIN metrics.dimensions}
                /\ metrics' = metrics ]_vars

\* C13 witness: metrics were added and flushed by flush_metrics, the buffer
\* was dropped right after, and the drop emitted a payload with no entries.
C13_Witness ==
    /\ call.op = "drop"
    /\ Len(added) >= 1
    /\ mark.added = Len(added)
    /\ mark.stdout >= 1
    /\ Len(io.stdout) = mark.stdout + 2
    /\ LastLine.kind = "payload"
    /\ PayloadMetrics(LastLine) = <<>>

\* C14 (under SpecFault, where the serializer may fail): a flush whose
\* serialization fails completes all the same.  It writes no payload to the
\* standard output and one message to the error channel, the live entries are
\* cleared (inside add_metric only the new metric is live afterwards), and
\* unless the flush was the one on drop the buffer stays Open.
C14_FailedSerializationStillClears ==
    [][ ( /\ call'.op \in {"flush_metrics", "add_metric", "drop"}
          /\ Len(io'.stderr) > Len(io.stderr) ) =>
            /\ Len(io'.stderr) = Len(io.stderr) + 1
            /\ PayloadCount(io'.stdout) = PayloadCount(io.stdout)
            /\ call'.op # "drop" => io'.stdout = io.stdout /\ state' = "Open"
            /\ metrics'.entries
                  = IF call'.op = "add_metric"
                    THEN <<Metric(call'.name, call'.unit, call'.value)>>
                    ELSE <<>>
            /\ metrics'.namespace = metrics.namespace
            /\ metrics'.dimensions = metrics.dimensions ]_vars

\* C14 witness: the flush of a full buffer failed inside add_metric (a message
\* is on the error channel, no payload was ever written), the MAX_METRICS
\* metrics it held are gone, and the metric just added is live.
C14_Witness ==
    /\ call.op = "add_metric"
    /\ Len(io.stderr) = 1
    /\ io.stdout = <<>>
    /\ Len(added) = MAX_METRICS + 1
    /\ metrics.entries = <<CalledMetric>>

----------------------------------------------------------------------------
\* C15: Metrics::new(namespace, key, value) never fails and emits nothing: for
\* every choice of its arguments the unwrap does not panic, nothing is on the
\* standard output or on the error channel, and the value returned has the
\* namespace given, exactly one dimension, key mapped to value, and no entry.
C15_NewNeverFails ==
    call.op = "new" =>
        /\ state = "Open"
        /\ ret = "Self"
        /\ io.stdout = <<>>
        /\ io.stderr = <<>>
        /\ metrics.namespace = call.namespace
        /\ DOMAIN metrics.dimensions = {call.key}
        /\ metrics.dimensions[call.key] = call.value
        /\ metrics.entries = <<>>

\* C15 witness: a buffer just constructed with an empty namespace, a key that
\* is the empty string and a value that is the name of another key.
C15_Witness ==
    /\ call.op = "new"
    /\ call.namespace = ""
    /\ call.key = ""
    /\ call.value = "service"
    /\ DimensionCount = 1
    /\ metrics.entries = <<>>

----------------------------------------------------------------------------
\* C16: the buffer is Open from construction until it is dropped, and Closed
\* from then on.  The drop performs exactly one flush: one payload, carrying
\* the entries live at the drop, and the buffer is Closed with no entry.
\* Closed is terminal: no step starts from it, so no call changes the buffer
\* or writes anything after it.  A flush runs to its end inside the call that
\* makes it (it is never a state a call can start from): a call other than
\* the drop that flushed leaves the buffer Open, with no entry after
\* flush_metrics and with exactly the metric passed after add_metric, which
\* is added once the flush is over.
C16_Lifecycle ==
    /\ [](/\ state \in {"Open", "Closed"}
          /\ state = "Closed" <=> call.op = "drop")
    /\ [][ /\ state = "Open"
           /\ call'.op = "drop" =>
                 /\ state' = "Closed"
                 /\ PayloadCount(io'.stdout) = PayloadCount(io.stdout) + 1
                 /\ Carries(io'.stdout[Len(io'.stdout)], metrics.entries)
                 /\ metrics'.entries = <<>>
           /\ call'.op # "drop" =>
                 /\ state' = "Open"
                 /\ PayloadCount(io'.stdout) \in
                       {PayloadCount(io.stdout), PayloadCount(io.stdout) + 1}
           /\ (call'.op = "flush_metrics") => metrics'.entries = <<>>
           /\ (call'.op = "add_metric" /\ io'.stdout # io.stdout) =>
                 metrics'.entries
                    = <<Metric(call'.name, call'.unit, call'.value)>> ]_vars

\* C16 witness: a whole life: metrics were added, a duplicate name flushed
\* implicitly, and the drop flushed the live metric and closed the buffer.
C16_Witness ==
    /\ state = "Closed"
    /\ steps = MaxSteps
    /\ mark.stdout = 0
    /\ Len(added) = 2
    /\ PayloadCount(io.stdout) = 2
    /\ Len(PayloadMetrics(LastLine)) = 1

----------------------------------------------------------------------------
\* C17: everything written to the standard output is a flush payload: every
\* line a step writes there is a payload, flush_metrics and the drop write
\* exactly one line, and add_metric writes one line when it flushes (the
\* buffer is full or holds the name) and none otherwise.
C17_StdoutOnlyPayloads ==
    [][ /\ \A i \in (Len(io.stdout) + 1)..Len(io'.stdout) :
              io'.stdout[i].kind = "payload"
        /\ call'.op \in {"flush_metrics", "drop"} =>
              Len(io'.stdout) = Len(io.stdout) + 1
        /\ call'.op = "add_metric" =>
              Len(io'.stdout) = Len(io.stdout) +
                  (IF \/ Len(metrics.entries) >= MAX_METRICS
                      \/ call'.name \in NamesOf(metrics.entries)
                   THEN 1 ELSE 0) ]_vars

----------------------------------------------------------------------------
\* The number of metric definitions in the payloads among the first j lines
\* of the standard output.
RECURSIVE EmittedCount(_, _)
EmittedCount(out, j) ==
    IF j = 0
    THEN 0
    ELSE EmittedCount(out, j - 1)
           + (IF out[j].kind = "payload" THEN Len(PayloadMetrics(out[j])) ELSE 0)

\* C18: with a serializer that does not fail, the Metrics lists of the payloads
\* emitted so far, concatenated in emission order, are a prefix of the sequence
\* of add_metric calls: each payload carries, in order and with their units and
\* values, the calls that follow those of the payloads before it.  The calls
\* not yet emitted are the live entries, and once the buffer is Closed every
\* call has been emitted.
C18_EmittedIsPrefixOfAdded ==
    /\ EmittedCount(io.stdout, Len(io.stdout)) <= Len(added)
    /\ \A j \in 1..Len(io.stdout) :
          io.stdout[j].kind = "payload" =>
              Carries(io.stdout[j],
                      SubSeq(added, EmittedCount(io.stdout, j - 1) + 1,
                             EmittedCount(io.stdout, j)))
    /\ metrics.entries
          = SubSeq(added, EmittedCount(io.stdout, Len(io.stdout)) + 1, Len(added))
    /\ state = "Closed" => EmittedCount(io.stdout, Len(io.stdout)) = Len(added)

\* C18 witness: a closed buffer whose MAX_METRICS + 1 calls went out in two
\* payloads, the first MAX_METRICS by the implicit flush of "over_100" and
\* "over_100" itself by the drop.
C18_Witness ==
    /\ state = "Closed"
    /\ Len(added) = MAX_METRICS + 1
    /\ added[Len(added)].name = "over_100"
    /\ PayloadCount(io.stdout) = 2
    /\ Len(PayloadMetrics(io.stdout[1])) = MAX_METRICS
    /\ HasMetric(LastLine, added[Len(added)])

----------------------------------------------------------------------------
\* C19: every payload on the standard output lists at most MAX_METRICS (100)
\* metric definitions with pairwise distinct names, and at most
\* MAX_DIMENSIONS (30) dimension keys in its single Dimensions array.
C19_PayloadsBounded ==
    \A j \in 1..Len(io.stdout) :
        io.stdout[j].kind = "payload" =>
            LET directive == io.stdout[j].body.aws.CloudWatchMetrics[1]
            IN  /\ Len(directive.Metrics) <= MAX_METRICS
                /\ \A a, b \in 1..Len(directive.Metrics) :
                      directive.Metrics[a].Name = directive.Metrics[b].Name
                          => a = b
                /\ Len(directive.Dimensions) = 1
                /\ Cardinality(directive.Dimensions[1]) <= MAX_DIMENSIONS

\* C19 witness: a payload at both limits: MAX_METRICS definitions and
\* MAX_DIMENSIONS dimension keys.
C19_Witness ==
    /\ Len(io.stdout) >= 1
    /\ LastLine.kind = "payload"
    /\ Len(PayloadMetrics(LastLine)) = MAX_METRICS
    /\ Cardinality(LastLine.body.aws.CloudWatchMetrics[1].Dimensions[1])
          = MAX_DIMENSIONS

----------------------------------------------------------------------------
\* C20: the dimension mapping only grows.  The buffer always has at least one
\* dimension; no step removes a key (so the count never goes down); and from
\* a buffer of MAX_DIMENSIONS (30) dimensions every step keeps the count at
\* MAX_DIMENSIONS and every try_add_dimension call fails, whatever its key
\* and whatever add_metric or flush_metrics calls came in between.
C20_DimensionsOnlyGrow ==
    /\ [](DimensionCount >= 1)
    /\ [][ /\ DOMAIN metrics.dimensions \subseteq DOMAIN metrics'.dimensions
           /\ DimensionCount = MAX_DIMENSIONS =>
                 /\ Cardinality(DOMAIN metrics'.dimensions) = MAX_DIMENSIONS
                 /\ call'.op = "try_add_dimension" =>
                       /\ ~ret'.ok
                       /\ metrics'.dimensions = metrics.dimensions ]_vars

\* C20 witness: the buffer reached MAX_DIMENSIONS dimensions, a payload was
\* then flushed, and the try_add_dimension call after the flush failed.
C20_Witness ==
    /\ call.op = "try_add_dimension"
    /\ ~ret.ok
    /\ DimensionCount = MAX_DIMENSIONS
    /\ mark.stdout >= 1
    /\ Len(io.stdout) = mark.stdout
    /\ Cardinality(LastLine.body.aws.CloudWatchMetrics[1].Dimensions[1])
          = MAX_DIMENSIONS

=============================================================================
